---- MODULE Spec2Model ----
(***************************************************************************)
(* Model of app.py, the single-page cementing dashboard.                   *)
(*                                                                         *)
(* The script is re-executed from top to bottom every time a widget        *)
(* changes.  The state is the widget values plus what the last execution   *)
(* of the script computed, rendered and raised.  Python floats are         *)
(* modelled bit-exactly as IEEE-754 binary64 values with round-to-nearest- *)
(* even; mantissas are kept as little-endian sequences of 15-bit limbs.    *)
(***************************************************************************)
EXTENDS Integers, Sequences, FiniteSets, TLC

\* ------------------------------------------------------------------------
\* Natural numbers of arbitrary size: little-endian limb sequences without
\* leading zero limbs; <<>> is zero.
\* ------------------------------------------------------------------------
Base == 2^15

Limb(a, i) == IF i <= Len(a) THEN a[i] ELSE 0

RECURSIVE BNorm(_)
BNorm(a) == IF a = <<>> THEN <<>>
            ELSE IF a[Len(a)] = 0 THEN BNorm(SubSeq(a, 1, Len(a) - 1))
            ELSE a

RECURSIVE BFromInt(_)
BFromInt(n) == IF n = 0 THEN <<>> ELSE <<n % Base>> \o BFromInt(n \div Base)

RECURSIVE BAddFrom(_, _, _, _)
BAddFrom(a, b, i, c) ==
    IF i > Len(a) /\ i > Len(b)
    THEN (IF c = 0 THEN <<>> ELSE <<c>>)
    ELSE LET s == Limb(a, i) + Limb(b, i) + c
         IN  <<s % Base>> \o BAddFrom(a, b, i + 1, s \div Base)

BAdd(a, b) == BAddFrom(a, b, 1, 0)

\* a - b for a >= b
RECURSIVE BSubFrom(_, _, _, _)
BSubFrom(a, b, i, c) ==
    IF i > Len(a) THEN <<>>
    ELSE LET s == a[i] - Limb(b, i) - c
         IN  IF s < 0 THEN <<s + Base>> \o BSubFrom(a, b, i + 1, 1)
                      ELSE <<s>> \o BSubFrom(a, b, i + 1, 0)

BSub(a, b) == BNorm(BSubFrom(a, b, 1, 0))

\* -1, 0, 1 as a < b, a = b, a > b
RECURSIVE BCmpFrom(_, _, _)
BCmpFrom(a, b, i) ==
    IF i = 0 THEN 0
    ELSE IF a[i] < b[i] THEN -1
    ELSE IF a[i] > b[i] THEN 1
    ELSE BCmpFrom(a, b, i - 1)

BCmp(a, b) == IF Len(a) < Len(b) THEN -1
              ELSE IF Len(a) > Len(b) THEN 1
              ELSE BCmpFrom(a, b, Len(a))

\* a * k for 0 <= k < Base
RECURSIVE BMulSmallFrom(_, _, _, _)
BMulSmallFrom(a, k, i, c) ==
    IF i > Len(a)
    THEN (IF c = 0 THEN <<>> ELSE <<c>>)
    ELSE LET s == a[i] * k + c
         IN  <<s % Base>> \o BMulSmallFrom(a, k, i + 1, s \div Base)

BMulSmall(a, k) == IF k = 0 THEN <<>> ELSE BMulSmallFrom(a, k, 1, 0)

RECURSIVE BMul(_, _)
BMul(a, b) ==
    IF a = <<>> \/ b = <<>> THEN <<>>
    ELSE LET rest == BMul(a, Tail(b))
         IN  BAdd(BMulSmall(a, b[1]), IF rest = <<>> THEN <<>> ELSE <<0>> \o rest)

\* floor(a / k) for 0 < k <= Base, most significant limb first
RECURSIVE BDivSmallFrom(_, _, _, _)
BDivSmallFrom(a, k, i, r) ==
    IF i = 0 THEN <<>>
    ELSE LET s == r * Base + a[i]
         IN  BDivSmallFrom(a, k, i - 1, s % k) \o <<s \div k>>

BDivSmall(a, k) == BNorm(BDivSmallFrom(a, k, Len(a), 0))

Zeros(n) == [i \in 1..n |-> 0]

BShl(a, n) == IF a = <<>> THEN <<>>
              ELSE Zeros(n \div 15) \o BMulSmall(a, 2^(n % 15))

BShr(a, n) == IF n \div 15 >= Len(a) THEN <<>>
              ELSE BDivSmall(SubSeq(a, n \div 15 + 1, Len(a)), 2^(n % 15))

RECURSIVE IntBitLen(_)
IntBitLen(n) == IF n = 0 THEN 0 ELSE 1 + IntBitLen(n \div 2)

BitLen(a) == IF a = <<>> THEN 0 ELSE (Len(a) - 1) * 15 + IntBitLen(a[Len(a)])

BOdd(a) == a # <<>> /\ a[1] % 2 = 1

\* ------------------------------------------------------------------------
\* Python float: IEEE-754 binary64.  A finite value is (-1)^s * m * 2^e with
\* m = <<>> (zero) or m of exactly Prec bits, so equal values are equal
\* records.  The magnitudes of this program stay far from the exponent
\* limits, so subnormals and overflow are not represented.
\* ------------------------------------------------------------------------
Prec == 53

FZero == [k |-> "fin", s |-> 0, m |-> <<>>, e |-> 0]
FNaN  == [k |-> "nan", s |-> 0, m |-> <<>>, e |-> 0]
FInf(s) == [k |-> "inf", s |-> s, m |-> <<>>, e |-> 0]

IsFinite(x) == x.k = "fin"
IsZero(x) == x.k = "fin" /\ x.m = <<>>

\* FRound below, in steps.  Each step hands the value it computed to the
\* next one as an argument.
\* the rounded significand q2 at exponent e, renormalised after a carry
FRoundPack(s, q2, e) ==
    IF BitLen(q2) > Prec
    THEN [k |-> "fin", s |-> s, m |-> BShr(q2, 1), e |-> e + 1]
    ELSE [k |-> "fin", s |-> s, m |-> q2, e |-> e]

\* q the leading Prec bits, c the discarded bits compared with one half
FRoundUp(s, q, e, c, sticky) ==
    FRoundPack(s, IF c > 0 \/ (c = 0 /\ (sticky \/ BOdd(q))) THEN BAdd(q, <<1>>) ELSE q, e)

\* sh > 0 bits of M are discarded, q = floor(M / 2^sh)
FRoundCut(s, M, e, sticky, sh, q) ==
    FRoundUp(s, q, e + sh, BCmp(BSub(M, BShl(q, sh)), BShl(<<1>>, sh - 1)), sticky)

\* L the bit length of M
FRoundLen(s, M, e, sticky, L) ==
    IF L <= Prec
    THEN [k |-> "fin", s |-> s, m |-> BShl(M, Prec - L), e |-> e - (Prec - L)]
    ELSE FRoundCut(s, M, e, sticky, L - Prec, BShr(M, L - Prec))

\* the binary64 nearest to (-1)^s * (M + sticky) * 2^e, ties to even;
\* sticky stands for a discarded nonzero part below the last bit of M.
FRound(s, M, e, sticky) ==
    IF M = <<>> THEN FZero ELSE FRoundLen(s, M, e, sticky, BitLen(M))

\* float(n) for an int n
FInt(n) == FRound(IF n < 0 THEN 1 ELSE 0, BFromInt(IF n < 0 THEN 0 - n ELSE n), 0, FALSE)

FNeg(x) == IF x.k = "nan" \/ IsZero(x) THEN x ELSE [x EXCEPT !.s = 1 - x.s]

\* x * y
FMul(x, y) ==
    IF x.k = "nan" \/ y.k = "nan" THEN FNaN
    ELSE IF x.k = "inf" \/ y.k = "inf"
         THEN (IF IsZero(x) \/ IsZero(y) THEN FNaN ELSE FInf((x.s + y.s) % 2))
    ELSE FRound((x.s + y.s) % 2, BMul(x.m, y.m), x.e + y.e, FALSE)

\* (-1)^sx * Mx * 2^e + (-1)^sy * My * 2^e, c the comparison of Mx with My
FAddAligned(sx, sy, Mx, My, e, c) ==
    FRound(IF sx = sy \/ c > 0 THEN sx ELSE sy,
           IF sx = sy THEN BAdd(Mx, My)
           ELSE IF c >= 0 THEN BSub(Mx, My) ELSE BSub(My, Mx),
           e, FALSE)

FAddShifted(sx, sy, Mx, My, e) == FAddAligned(sx, sy, Mx, My, e, BCmp(Mx, My))

\* x + y for finite nonzero x, y, at their smaller exponent e
FAddAt(x, y, e) == FAddShifted(x.s, y.s, BShl(x.m, x.e - e), BShl(y.m, y.e - e), e)

\* x + y
FAdd(x, y) ==
    IF x.k = "nan" \/ y.k = "nan" THEN FNaN
    ELSE IF x.k = "inf" /\ y.k = "inf" THEN (IF x.s = y.s THEN x ELSE FNaN)
    ELSE IF x.k = "inf" THEN x
    ELSE IF y.k = "inf" THEN y
    ELSE IF IsZero(x) THEN y
    ELSE IF IsZero(y) THEN x
    ELSE FAddAt(x, y, IF x.e < y.e THEN x.e ELSE y.e)

FSub(x, y) == FAdd(x, FNeg(y))

\* n more quotient bits of r / d for r < d, on qr = <<quotient, remainder>>
RECURSIVE DivBits(_, _, _)
DivBits(qr, d, n) ==
    IF n = 0 THEN qr
    ELSE LET r2 == BMulSmall(qr[2], 2)
             q2 == BMulSmall(qr[1], 2)
         IN  IF BCmp(r2, d) >= 0
             THEN DivBits(<<BAdd(q2, <<1>>), BSub(r2, d)>>, d, n - 1)
             ELSE DivBits(<<q2, r2>>, d, n - 1)

\* the quotient bits qr[1] rounded, a nonzero remainder qr[2] being sticky
FDivPack(s, qr, e) == FRound(s, qr[1], e, qr[2] # <<>>)

\* x / y as the hardware divides (numpy semantics: a zero divisor gives
\* inf or nan)
FDiv(x, y) ==
    IF x.k = "nan" \/ y.k = "nan" THEN FNaN
    ELSE IF x.k = "inf" THEN (IF y.k = "inf" THEN FNaN ELSE FInf((x.s + y.s) % 2))
    ELSE IF y.k = "inf" THEN FZero
    ELSE IF IsZero(y) THEN (IF IsZero(x) THEN FNaN ELSE FInf((x.s + y.s) % 2))
    ELSE IF IsZero(x) THEN FZero
    ELSE FDivPack((x.s + y.s) % 2,
                  DivBits(IF BCmp(x.m, y.m) >= 0 THEN <<(<<1>>), BSub(x.m, y.m)>>
                                                 ELSE <<(<<>>), x.m>>,
                          y.m, Prec + 2),
                  x.e - y.e - (Prec + 2))

\* -1, 0, 1 as x < y, x = y, x > y (finite x, y)
FCmp(x, y) ==
    LET mag == IF IsZero(x) THEN 0
               ELSE IF x.e < y.e THEN -1
               ELSE IF x.e > y.e THEN 1
               ELSE BCmp(x.m, y.m)
    IN  IF IsZero(x) /\ IsZero(y) THEN 0
        ELSE IF IsZero(x) THEN (IF y.s = 0 THEN -1 ELSE 1)
        ELSE IF IsZero(y) THEN (IF x.s = 0 THEN 1 ELSE -1)
        ELSE IF x.s # y.s THEN (IF x.s = 1 THEN -1 ELSE 1)
        ELSE IF x.s = 0 THEN mag ELSE -mag

FLt(x, y) == IsFinite(x) /\ IsFinite(y) /\ FCmp(x, y) < 0
FLe(x, y) == IsFinite(x) /\ IsFinite(y) /\ FCmp(x, y) <= 0
FGt(x, y) == FLt(y, x)
FGe(x, y) == FLe(y, x)

\* Python's min(a, b) and max(a, b): the first argument unless the second
\* is strictly smaller (larger)
FMin(a, b) == IF FLt(b, a) THEN b ELSE a
FMax(a, b) == IF FGt(b, a) THEN b ELSE a

\* the float a decimal literal n/d denotes (n, d exactly representable)
FLit(n, d) == FDiv(FInt(n), FInt(d))

\* int(x) for a finite x of magnitude below 2^30: truncation toward zero
FTrunc(x) ==
    IF IsZero(x) THEN 0
    ELSE LET a == IF x.e >= 0 THEN BShl(x.m, x.e) ELSE BShr(x.m, 0 - x.e)
             n == Limb(a, 1) + Base * Limb(a, 2)
         IN  IF x.s = 1 THEN 0 - n ELSE n

\* a name the script has not bound, and a raised exception
Undef == [k |-> "undef", s |-> 0, m |-> <<>>, e |-> 0]
Raise(exc) == [k |-> exc, s |-> 0, m |-> <<>>, e |-> 0]
IsValue(x) == x.k \in {"fin", "nan", "inf"}

\* Python's float / float
PyTrueDiv(x, y) == IF IsZero(y) THEN Raise("ZeroDivisionError") ELSE FDiv(x, y)

\* nan_to_num left out: the value is passed on as it is
nan_to_num_omitted(x) == x

\* np.nan_to_num(x, nan=0.0, posinf=0.0, neginf=0.0)
nan_to_num(x) == IF x.k \in {"nan", "inf"} THEN FZero ELSE x

\* ------------------------------------------------------------------------
\* The float literals of the script
\* ------------------------------------------------------------------------
\* math.pi
Pi == [k |-> "fin", s |-> 0, m |-> <<11544, 10376, 2029, 201>>, e |-> 0 - 51]
F7_48052 == FLit(748052, 100000)
F0_00028 == FLit(28, 100000)
F0_015   == FLit(15, 1000)
F0_001   == FLit(1, 1000)
F0_0001  == FLit(1, 10000)
F0_052   == FLit(52, 1000)
F0_45    == FLit(45, 100)
F0_1     == FLit(1, 10)
F0_5     == FLit(5, 10)
F1_2     == FLit(12, 10)
F1       == FInt(1)
F4       == FInt(4)
F10      == FInt(10)
F12      == FInt(12)
F20      == FInt(20)
F42      == FInt(42)
F50      == FInt(50)
F1000    == FInt(1000)
T_ref    == FInt(150)

\* np.exp at the arguments -0.015 * (T - 150.0) for T in 50, 150, 200, 350
ExpTable ==
    { << [k |-> "fin", s |-> 0, m |-> <<0, 0, 0, 192>>, e |-> 0 - 52],
         [k |-> "fin", s |-> 0, m |-> <<17729, 19615, 13567, 143>>, e |-> 0 - 50] >>,
      << FZero,
         [k |-> "fin", s |-> 0, m |-> <<0, 0, 0, 128>>, e |-> 0 - 52] >>,
      << [k |-> "fin", s |-> 1, m |-> <<0, 0, 0, 192>>, e |-> 0 - 53],
         [k |-> "fin", s |-> 0, m |-> <<19838, 22495, 27907, 241>>, e |-> 0 - 54] >>,
      << [k |-> "fin", s |-> 1, m |-> <<0, 0, 0, 192>>, e |-> 0 - 51],
         [k |-> "fin", s |-> 0, m |-> <<12463, 6557, 30403, 203>>, e |-> 0 - 57] >> }

np_exp(x) == (CHOOSE p \in ExpTable : p[1] = x)[2]

\* ------------------------------------------------------------------------
\* Utility functions of the script
\* ------------------------------------------------------------------------
density_temp_correction(ppg, T, Tref) ==
    FDiv(FMul(FMul(ppg, F7_48052), FSub(F1, FMul(F0_00028, FSub(T, Tref)))), F7_48052)

viscosity_temp_correction(pv_cP, T, Tref) ==
    FMax(F0_001, FMul(pv_cP, np_exp(FMul(FNeg(F0_015), FSub(T, Tref)))))

\* x**2
Pow2(x) == FMul(x, x)

annulus_area_ft2(hole_in, casing_in) ==
    FDiv(FMul(Pi, FSub(Pow2(FDiv(hole_in, F12)), Pow2(FDiv(casing_in, F12)))), F4)

annulus_hydraulic_diameter_ft(hole_in, casing_in) ==
    FMax(F0_0001, FDiv(FSub(hole_in, casing_in), F12))

\* vol_bbl = ann_area * 7.48052 * (depth - toc) / 42.0
vol_bbl_of(area, td, tc) == FDiv(FMul(FMul(area, F7_48052), FInt(td - tc)), F42)

\* the guard written rate >= 0 instead of rate > 0
pump_time_of_ge(vol, rt) == IF FGe(rt, FZero) THEN PyTrueDiv(vol, rt) ELSE FZero

\* pump_time = vol_bbl / rate if rate>0 else 0.0
pump_time_of(vol, rt) == IF FGt(rt, FZero) THEN PyTrueDiv(vol, rt) ELSE FZero

VolumeAndTime(vol, rt) == [vol_bbl |-> vol, pump_time |-> pump_time_of(vol, rt)]

\* vol_bbl and pump_time of the derived properties
volume_and_time(area, td, tc, rt) == VolumeAndTime(vol_bbl_of(area, td, tc), rt)

\* the fraction without its clamp min(1.0, ...)
frac_of_unclamped(elapsed, ptime) ==
    IF FGt(ptime, FZero) THEN PyTrueDiv(elapsed, ptime) ELSE FZero

\* frac = min(1.0, t/pump_time) if pump_time>0 else 0.0
frac_of(elapsed, ptime) ==
    IF FGt(ptime, FZero) THEN FMin(F1, PyTrueDiv(elapsed, ptime)) ELSE FZero

\* front = depth - frac*(depth-toc)
front_of(td, tc, fr) == FSub(FInt(td), FMul(fr, FInt(td - tc)))

FracAndFront(td, tc, fr) == [frac |-> fr, front |-> front_of(td, tc, fr)]

\* frac and front of the placement panel
placement_front(td, tc, elapsed, ptime) == FracAndFront(td, tc, frac_of(elapsed, ptime))

\* np.linspace(start, stop, num)[i] for ints start, stop and 0 <= i < num:
\* step = delta/div, y = arange(num)*step + start, y[-1] = stop
linspace_y(start, stop, num, i, delta, step) ==
    IF i = num - 1 THEN FInt(stop)
    ELSE FAdd(IF IsZero(step) THEN FMul(FDiv(FInt(i), FInt(num - 1)), delta)
                              ELSE FMul(FInt(i), step),
              FInt(start))

linspace_step(start, stop, num, i, delta) ==
    linspace_y(start, stop, num, i, delta, FDiv(delta, FInt(num - 1)))

np_linspace(start, stop, num, i) ==
    linspace_step(start, stop, num, i, FSub(FInt(stop), FInt(start)))

\* ------------------------------------------------------------------------
\* Inputs.  Float widgets are kept in tenths (the widget step is 0.1) and
\* converted to the float their decimal value denotes when the script runs.
\* ------------------------------------------------------------------------
Panels == {"ECD", "Pressure", "Rheology", "Schematic", "Placement"}
DefaultShow == {"ECD", "Rheology", "Schematic"}

HoleMin == 60
HoleMax == 200
HoleDefault == 85
CasingMin == 40
CasingMax == 160
CasingDefault == 55
DepthMin == 1000
DepthMax == 12000
DepthDefault == 3000
DepthStep == 100
TocStep == 50
RateMin == 5
RateMax == 180
RateDefault == 40
FractureMin == 120
FractureMax == 220
FractureDefault == 170
PoreMin == 90
PoreMax == 180
PoreDefault == 135
TempMin == 50
TempMax == 350
NumSamples == 400

\* the slider's upper end written depth instead of depth-50
TocMax_depth(d) == d

TocMax(d) == d - 50
TocDefault(d) == FTrunc(FMul(FInt(d), F0_5))

\* the positions the widgets are moved to in this model
HoleVals == {v \in {HoleMin, HoleDefault} : HoleMin <= v /\ v <= HoleMax}
CasingVals == {v \in {CasingDefault, HoleDefault} : CasingMin <= v /\ v <= CasingMax}
DepthVals == {v \in {DepthMin, DepthDefault} :
                DepthMin <= v /\ v <= DepthMax /\ v % DepthStep = 0}
TocVals(d) == {v \in {0, TocDefault(d), d - TocStep, d} :
                 0 <= v /\ v <= TocMax(d) /\ v % TocStep = 0}
RateVals == {v \in {RateMin, RateDefault} : RateMin <= v /\ v <= RateMax}
FractureVals == {v \in {FractureMin, FractureDefault} :
                   FractureMin <= v /\ v <= FractureMax}
PoreVals == {v \in {PoreDefault, FractureDefault} : PoreMin <= v /\ v <= PoreMax}
TempVals == {v \in {150, 200} : TempMin <= v /\ v <= TempMax}

\* sample_slurries.csv: one regular row and one whose density cell is empty
\* (pandas reads it as NaN; the script checks the columns only)
Slurries == {"Class G", "Blank"}
\* the cells of the rows: <<n>> for the number n/10, <<>> for an empty cell
Rows ==
    [name \in Slurries |->
        IF name = "Class G"
        THEN [density_ppg |-> <<158>>, plastic_viscosity_cP |-> <<550>>,
              yield_point_lb100ft2 |-> <<120>>, BHCT_F |-> 150]
        ELSE [density_ppg |-> <<>>, plastic_viscosity_cP |-> <<400>>,
              yield_point_lb100ft2 |-> <<100>>, BHCT_F |-> 200]]
\* float(row[...]) of a cell
float_of(cell) == IF cell = <<>> THEN FNaN ELSE FLit(cell[1], 10)
DefaultSlurry == "Class G"

\* indices of the 400 depth samples that are computed in the model
MaxSampleIdx == 1
SampleIdx == (0 .. MaxSampleIdx) \cup {NumSamples - 1}

\* positions (in minutes) the simulation-time slider is moved to
MaxSim == 1
SimVals == {100 * i : i \in 0 .. MaxSim}

UndefSeries == [i \in SampleIdx |-> Undef]

\* ------------------------------------------------------------------------
\* The ECD panel's series
\* ------------------------------------------------------------------------
\* depth_arr[i]
depth_sample(td, i) == np_linspace(1, td, NumSamples, i)

\* geom = max(0.1, 1 + (0.45 - ann_dh))
geom_of(dh) == FMax(F0_1, FAdd(F1, FSub(F0_45, dh)))

\* friction = (pv/10.0)*(rate/4.0) + (yp/20.0)
friction_of(pvv, ypv, rt) == FAdd(FMul(FDiv(pvv, F10), FDiv(rt, F4)), FDiv(ypv, F20))

\* friction_psi, hydro_psi, total_psi and ecd (before nan_to_num) at depth z
friction_psi_at(friction, geom, z) ==
    FMul(FMul(FDiv(FMul(friction, z), F1000), F50), geom)
hydro_psi_at(dens, z) == FMul(FMul(F0_052, dens), z)
total_psi_at(hy, fr) == FAdd(hy, fr)
ecd_raw(total, z) == FDiv(total, FMul(F0_052, z))

SampleOf(z, fr, hy, total) ==
    [depth_arr |-> z, friction_psi |-> fr, hydro_psi |-> hy, total_psi |-> total,
     ecd |-> nan_to_num(ecd_raw(total, z))]
SampleSum(z, fr, hy) == SampleOf(z, fr, hy, total_psi_at(hy, fr))
\* the values of the five arrays at depth z
ecd_sample(z, dens, friction, geom) ==
    SampleSum(z, friction_psi_at(friction, geom, z), hydro_psi_at(dens, z))

\* the arrays of the samples pts, a set of pairs <<index, values at it>>
SampleAt(pts, i) == (CHOOSE p \in pts : p[1] = i)[2]
SeriesOf(pts) ==
    [depth_arr    |-> [i \in SampleIdx |-> SampleAt(pts, i).depth_arr],
     friction_psi |-> [i \in SampleIdx |-> SampleAt(pts, i).friction_psi],
     hydro_psi    |-> [i \in SampleIdx |-> SampleAt(pts, i).hydro_psi],
     total_psi    |-> [i \in SampleIdx |-> SampleAt(pts, i).total_psi],
     ecd          |-> [i \in SampleIdx |-> SampleAt(pts, i).ecd]]
ecd_series(td, dens, friction, geom) ==
    SeriesOf({<<i, ecd_sample(depth_sample(td, i), dens, friction, geom)>> :
                 i \in SampleIdx})

ecd_panel(td, dens, pvv, ypv, rt, dh) ==
    ecd_series(td, dens, friction_of(pvv, ypv, rt), geom_of(dh))

NoPanel == [depth_arr |-> UndefSeries, friction_psi |-> UndefSeries,
            hydro_psi |-> UndefSeries, total_psi |-> UndefSeries,
            ecd |-> UndefSeries]

\* the band fill_betweenx draws from pore pressure to fracture gradient
safe_window_band(pore, fracture) == <<pore, fracture>>

\* ------------------------------------------------------------------------
\* The simulation-time slider of the placement panel
\* ------------------------------------------------------------------------
sim_slider(ptime) ==
    [min_value |-> FZero,
     max_value |-> FMax(F1, FMul(ptime, F1_2)),
     value     |-> FMin(ptime, FMul(ptime, F0_5))]

\* st.slider raises when its default value lies outside its range
SliderAccepts(sl) == FLe(sl.min_value, sl.value) /\ FLe(sl.value, sl.max_value)

\* ------------------------------------------------------------------------
\* The values above per widget position, computed once
\* ------------------------------------------------------------------------
Tenths == [v \in HoleVals \cup CasingVals \cup RateVals \cup FractureVals \cup PoreVals
             |-> FLit(v, 10)]
Hundredths == [v \in SimVals |-> FLit(v, 100)]
TocDefaultOf == [d \in DepthVals |-> TocDefault(d)]
TocValsOf == [d \in DepthVals |-> TocVals(d)]
AllTocVals == UNION {TocValsOf[d] : d \in DepthVals}
SimPositions == {<<>>} \cup {<<v>> : v \in SimVals}

\* density0, pv0, yp0 and density, pv, yp
FluidAt(density0, pv0, yp0, T, a) ==
    [density |-> IF a THEN density_temp_correction(density0, T, T_ref) ELSE density0,
     pv      |-> IF a THEN viscosity_temp_correction(pv0, T, T_ref) ELSE pv0,
     yp      |-> yp0]
FluidOfRow(row, T, a) ==
    FluidAt(float_of(row.density_ppg), float_of(row.plastic_viscosity_cP),
            float_of(row.yield_point_lb100ft2), FInt(T), a)
FluidOf == [s \in Slurries, T \in TempVals, a \in BOOLEAN |-> FluidOfRow(Rows[s], T, a)]

\* ann_area and ann_dh
GeometryAt(hole_in, casing_in) ==
    [ann_area |-> annulus_area_ft2(hole_in, casing_in),
     ann_dh   |-> annulus_hydraulic_diameter_ft(hole_in, casing_in)]
GeometryOf == [h \in HoleVals, c \in CasingVals |-> GeometryAt(Tenths[h], Tenths[c])]

\* t, frac and front of the placement panel with the slider sl at position
\* pos (<<>>: at its default value)
FrontRow(elapsed, pf) == [t |-> elapsed, frac |-> pf.frac, front |-> pf.front]
FrontAt(td, tc, ptime, elapsed) ==
    FrontRow(elapsed, placement_front(td, tc, elapsed, ptime))
FrontsOf(td, tc, ptime, sl) ==
    [pos \in SimPositions |->
        FrontAt(td, tc, ptime, IF pos = <<>> THEN sl.value ELSE Hundredths[pos[1]])]

\* the derived properties and what the placement panel makes of them
PlacementAt(td, tc, geo, vt, sl) ==
    [ann_area |-> geo.ann_area, ann_dh |-> geo.ann_dh,
     vol_bbl |-> vt.vol_bbl, pump_time |-> vt.pump_time,
     slider |-> sl, accepted |-> SliderAccepts(sl),
     positions |-> {k \in SimVals : FLe(Hundredths[k], sl.max_value)},
     fronts |-> FrontsOf(td, tc, vt.pump_time, sl)]
SliderAt(td, tc, geo, vt) == PlacementAt(td, tc, geo, vt, sim_slider(vt.pump_time))
DerivedAt(td, tc, rt, geo) ==
    SliderAt(td, tc, geo, volume_and_time(geo.ann_area, td, tc, rt))
DerivedOf == [h \in HoleVals, c \in CasingVals, d \in DepthVals, tc \in AllTocVals,
              r \in RateVals |-> DerivedAt(d, tc, Tenths[r], GeometryOf[h, c])]

PanelAt(td, fl, rt, dh) == ecd_panel(td, fl.density, fl.pv, fl.yp, rt, dh)
PanelOf == [s \in Slurries, T \in TempVals, a \in BOOLEAN, h \in HoleVals,
            c \in CasingVals, d \in DepthVals, r \in RateVals |->
              PanelAt(d, FluidOf[s, T, a], Tenths[r], GeometryOf[h, c].ann_dh)]

\* ------------------------------------------------------------------------
\* State: the widget values, and what the last run of the script bound,
\* drew and raised.
\* ------------------------------------------------------------------------
VARIABLES slurry, hole, casing, depth, toc, rate, fracture_grad, pore_press,
          temp, apply_temp, show, sim,
          density, pv, ann_area, ann_dh, vol_bbl, pump_time,
          depth_arr, friction_psi, hydro_psi, total_psi, ecd, safe_window,
          t, frac, front, rendered, error,
          call

widgets == <<slurry, hole, casing, depth, toc, rate, fracture_grad, pore_press,
             temp, apply_temp, show, sim>>
outputs == <<density, pv, ann_area, ann_dh, vol_bbl, pump_time,
             depth_arr, friction_psi, hydro_psi, total_psi, ecd, safe_window,
             t, frac, front, rendered, error>>
vars == <<widgets, outputs, call>>

Widgets == [slurry |-> slurry, hole |-> hole, casing |-> casing, depth |-> depth,
            toc |-> toc, rate |-> rate, fracture_grad |-> fracture_grad,
            pore_press |-> pore_press, temp |-> temp, apply_temp |-> apply_temp,
            show |-> show]

\* One execution of the script on the widget values w, given what the
\* tables hold for them.  simIn is the
\* position the user gave the simulation-time slider (<<>>: untouched) and
\* simFor the pump time that slider was created for (Undef: no slider).
Run(w, simIn, simFor, fluid, dv, ecdPanel, band) ==
    LET derivedOk == IsValue(dv.pump_time)
        \* column 1
        ecdOn    == derivedOk /\ "ECD" \in w.show
        panel    == IF ecdOn THEN ecdPanel ELSE NoPanel
        pressOn  == derivedOk /\ "Pressure" \in w.show
        nameErr  == pressOn /\ \E x \in {panel.hydro_psi, panel.depth_arr,
                                         panel.friction_psi, panel.total_psi} :
                                  x = UndefSeries
        \* column 2
        col2     == derivedOk /\ ~nameErr
        placeOn  == col2 /\ "Placement" \in w.show
        sliderOk == placeOn /\ dv.accepted
        simOut   == IF sliderOk /\ simFor = dv.pump_time THEN simIn ELSE <<>>
        pf       == dv.fronts[simOut]
    IN  [density |-> fluid.density, pv |-> fluid.pv,
         ann_area |-> dv.ann_area, ann_dh |-> dv.ann_dh,
         vol_bbl |-> dv.vol_bbl,
         pump_time |-> IF derivedOk THEN dv.pump_time ELSE Undef,
         depth_arr |-> panel.depth_arr, friction_psi |-> panel.friction_psi,
         hydro_psi |-> panel.hydro_psi, total_psi |-> panel.total_psi,
         ecd |-> panel.ecd, safe_window |-> IF ecdOn THEN band ELSE <<>>,
         sim |-> simOut,
         t |-> IF sliderOk THEN pf.t ELSE Undef,
         frac |-> IF sliderOk THEN pf.frac ELSE Undef,
         front |-> IF sliderOk THEN pf.front ELSE Undef,
         rendered |-> (IF ecdOn THEN {"ECD"} ELSE {})
                      \cup (IF pressOn /\ ~nameErr THEN {"Pressure"} ELSE {})
                      \cup (IF col2 THEN w.show \cap {"Rheology", "Schematic"} ELSE {})
                      \cup (IF sliderOk THEN {"Placement"} ELSE {}),
         error |-> IF ~derivedOk THEN dv.pump_time.k
                   ELSE IF nameErr THEN "NameError"
                   ELSE IF placeOn /\ ~sliderOk THEN "StreamlitAPIException"
                   ELSE "none"]

Script(w, simIn, simFor) ==
    Run(w, simIn, simFor,
        FluidOf[w.slurry, w.temp, w.apply_temp],
        DerivedOf[w.hole, w.casing, w.depth, w.toc, w.rate],
        PanelOf[w.slurry, w.temp, w.apply_temp, w.hole, w.casing, w.depth, w.rate],
        safe_window_band(Tenths[w.pore_press], Tenths[w.fracture_grad]))

NoCall == [fn |-> "none", done |-> FALSE]

\* the pump time the current simulation-time slider was created for
SliderFor == IF t # Undef THEN pump_time ELSE Undef

InitApp ==
    LET w   == [slurry |-> DefaultSlurry, hole |-> HoleDefault, casing |-> CasingDefault,
                depth |-> DepthDefault, toc |-> TocDefault(DepthDefault),
                rate |-> RateDefault, fracture_grad |-> FractureDefault,
                pore_press |-> PoreDefault, temp |-> Rows[DefaultSlurry].BHCT_F,
                apply_temp |-> TRUE, show |-> DefaultShow]
    IN  \E out \in {Script(w, <<>>, Undef)} :
        /\ slurry = w.slurry /\ hole = w.hole /\ casing = w.casing
        /\ depth = w.depth /\ toc = w.toc /\ rate = w.rate
        /\ fracture_grad = w.fracture_grad /\ pore_press = w.pore_press
        /\ temp = w.temp /\ apply_temp = w.apply_temp /\ show = w.show
        /\ sim = out.sim
        /\ density = out.density /\ pv = out.pv /\ ann_area = out.ann_area
        /\ ann_dh = out.ann_dh /\ vol_bbl = out.vol_bbl /\ pump_time = out.pump_time
        /\ depth_arr = out.depth_arr /\ friction_psi = out.friction_psi
        /\ hydro_psi = out.hydro_psi /\ total_psi = out.total_psi
        /\ ecd = out.ecd /\ safe_window = out.safe_window
        /\ t = out.t /\ frac = out.frac /\ front = out.front
        /\ rendered = out.rendered /\ error = out.error

Init == InitApp /\ call = NoCall

\* the widgets take the values w and the script runs again
Rerun(w, simIn) ==
    \E out \in {Script(w, simIn, SliderFor)} :
        /\ slurry' = w.slurry /\ hole' = w.hole /\ casing' = w.casing
        /\ depth' = w.depth /\ toc' = w.toc /\ rate' = w.rate
        /\ fracture_grad' = w.fracture_grad /\ pore_press' = w.pore_press
        /\ temp' = w.temp /\ apply_temp' = w.apply_temp /\ show' = w.show
        /\ sim' = out.sim
        /\ density' = out.density /\ pv' = out.pv /\ ann_area' = out.ann_area
        /\ ann_dh' = out.ann_dh /\ vol_bbl' = out.vol_bbl /\ pump_time' = out.pump_time
        /\ depth_arr' = out.depth_arr /\ friction_psi' = out.friction_psi
        /\ hydro_psi' = out.hydro_psi /\ total_psi' = out.total_psi
        /\ ecd' = out.ecd /\ safe_window' = out.safe_window
        /\ t' = out.t /\ frac' = out.frac /\ front' = out.front
        /\ rendered' = out.rendered /\ error' = out.error
        /\ UNCHANGED call

\* a widget whose arguments change is a new widget and starts at its default
SelectSlurry ==
    \E s \in Slurries \ {slurry} :
        Rerun([Widgets EXCEPT !.slurry = s,
                              !.temp = IF Rows[s].BHCT_F = Rows[slurry].BHCT_F
                                       THEN temp ELSE Rows[s].BHCT_F], sim)

SetHole == \E v \in HoleVals \ {hole} : Rerun([Widgets EXCEPT !.hole = v], sim)

SetCasing == \E v \in CasingVals \ {casing} : Rerun([Widgets EXCEPT !.casing = v], sim)

SetDepth ==
    \E d \in DepthVals \ {depth} :
        Rerun([Widgets EXCEPT !.depth = d, !.toc = TocDefaultOf[d]], sim)

SetToc == \E v \in TocValsOf[depth] \ {toc} : Rerun([Widgets EXCEPT !.toc = v], sim)

SetRate == \E v \in RateVals \ {rate} : Rerun([Widgets EXCEPT !.rate = v], sim)

SetFractureGrad ==
    \E v \in FractureVals \ {fracture_grad} :
        Rerun([Widgets EXCEPT !.fracture_grad = v], sim)

SetPorePress ==
    \E v \in PoreVals \ {pore_press} : Rerun([Widgets EXCEPT !.pore_press = v], sim)

SetTemp == \E v \in TempVals \ {temp} : Rerun([Widgets EXCEPT !.temp = v], sim)

ToggleApplyTemp ==
    \E v \in BOOLEAN \ {apply_temp} : Rerun([Widgets EXCEPT !.apply_temp = v], sim)

SelectPanel == \E p \in Panels \ show : Rerun([Widgets EXCEPT !.show = show \cup {p}], sim)

DeselectPanel == \E p \in show : Rerun([Widgets EXCEPT !.show = show \ {p}], sim)

MoveSim ==
    /\ t # Undef
    /\ \E k \in DerivedOf[hole, casing, depth, toc, rate].positions :
        /\ <<k>> # sim
        /\ Rerun(Widgets, <<k>>)

Next ==
    \/ SelectSlurry \/ SetHole \/ SetCasing \/ SetDepth \/ SetToc \/ SetRate
    \/ SetFractureGrad \/ SetPorePress \/ SetTemp \/ ToggleApplyTemp
    \/ SelectPanel \/ DeselectPanel \/ MoveSim

Spec == Init /\ [][Next]_vars

\* ------------------------------------------------------------------------
\* The engine's functions applied to arguments of their own, also ones the
\* widgets cannot produce (a pump rate of zero, a negative pump time)
\* ------------------------------------------------------------------------
PpgArgs == {FLit(v, 10) : v \in {60, 120, 158, 164}}
TempArgs == {150, 200, 350}
AreaArgs == {GeometryOf[h, c].ann_area : h \in HoleVals, c \in CasingVals}
DepthPairs == {<<d, tc>> : d \in DepthVals, tc \in AllTocVals}
RateArgs == {FZero, FNeg(Tenths[RateDefault]), Tenths[RateMin], Tenths[RateDefault]}
PumpTimeArgs == {DerivedOf[h, c, DepthDefault, TocDefault(DepthDefault), RateDefault].pump_time :
                   h \in HoleVals, c \in CasingVals} \cup {F0_5}
ElapsedArgs(p) == {x \in {FZero, p, FMul(p, F0_5), FMul(p, F1_2), sim_slider(p).max_value}
                         \cup {Hundredths[v] : v \in SimVals} : FGe(x, FZero)}

DensityCalls ==
    {[fn |-> "density_temp_correction", done |-> FALSE, ppg |-> p, T |-> T, ret |-> Undef] :
        p \in PpgArgs, T \in TempArgs}
VolumeCalls ==
    {[fn |-> "volume_and_time", done |-> FALSE, ann_area |-> a, depth |-> dp[1],
      toc |-> dp[2], rate |-> r, vol_bbl |-> Undef, pump_time |-> Undef] :
        a \in AreaArgs, dp \in {x \in DepthPairs : x[2] \in TocValsOf[x[1]]}, r \in RateArgs}
FrontCalls ==
    UNION {{[fn |-> "placement_front", done |-> FALSE, depth |-> dp[1], toc |-> dp[2],
             pump_time |-> p, t |-> x, frac |-> Undef, front |-> Undef] :
               dp \in {y \in DepthPairs : y[2] \in TocValsOf[y[1]]}, x \in ElapsedArgs(p)} :
           p \in PumpTimeArgs}

EngineInit == InitApp /\ call \in DensityCalls \cup VolumeCalls \cup FrontCalls

ApplyDensity ==
    /\ call.fn = "density_temp_correction" /\ ~call.done
    /\ call' = [call EXCEPT !.done = TRUE,
                            !.ret = density_temp_correction(call.ppg, FInt(call.T), T_ref)]
    /\ UNCHANGED <<widgets, outputs>>

ApplyVolumeAndTime ==
    /\ call.fn = "volume_and_time" /\ ~call.done
    /\ \E vt \in {volume_and_time(call.ann_area, call.depth, call.toc, call.rate)} :
          call' = [call EXCEPT !.done = TRUE, !.vol_bbl = vt.vol_bbl,
                               !.pump_time = vt.pump_time]
    /\ UNCHANGED <<widgets, outputs>>

ApplyPlacementFront ==
    /\ call.fn = "placement_front" /\ ~call.done
    /\ \E pf \in {placement_front(call.depth, call.toc, call.t, call.pump_time)} :
          call' = [call EXCEPT !.done = TRUE, !.frac = pf.frac, !.front = pf.front]
    /\ UNCHANGED <<widgets, outputs>>

EngineNext == ApplyDensity \/ ApplyVolumeAndTime \/ ApplyPlacementFront

EngineSpec == EngineInit /\ [][EngineNext]_vars

\* ------------------------------------------------------------------------
\* Properties
\* ------------------------------------------------------------------------

\* C1 (as stated): whenever the casing OD is greater than or equal to the
\* hole diameter the annulus-area computation fails instead of returning: no
\* area is returned and no annulus volume or pump time is computed from it.
C1_AsStated ==
    casing >= hole => ~IsValue(ann_area) /\ ~IsValue(vol_bbl) /\ ~IsValue(pump_time)

\* C2 (as stated): every configuration handed to the calculation satisfies
\* hole_diameter > casing_od > 0.
C2_AsStated == hole > casing /\ casing > 0

\* C3: after any sequence of changes to the depth and top-of-cement sliders
\* 0 <= top_of_cement < total_depth, so the cemented interval is positive.
C3_TocBelowDepth == 0 <= toc /\ toc < depth /\ depth - toc > 0

C3_Witness == depth = DepthMin /\ toc = depth - TocStep /\ IsValue(vol_bbl)

\* C4: for pump_time P > 0 the placement front is TD at elapsed 0, TOC at
\* elapsed P and at every elapsed > P, and lies in [TOC, TD] for every
\* elapsed time the slider allows; for P <= 0 the fraction is 0 and the
\* front is TD.
C4_PlacementFront ==
    (call.fn = "placement_front" /\ call.done) =>
        LET td == FInt(call.depth)
            tc == FInt(call.toc)
        IN  IF FGt(call.pump_time, FZero)
            THEN /\ IsZero(call.t) => call.front = td
                 /\ call.t = call.pump_time => call.front = tc
                 /\ FGt(call.t, call.pump_time) => call.front = tc
                 /\ FLe(call.t, sim_slider(call.pump_time).max_value)
                       => FLe(tc, call.front) /\ FLe(call.front, td)
            ELSE call.frac = FZero /\ call.front = td

C4_Witness ==
    /\ call.fn = "placement_front" /\ call.done
    /\ FGt(call.pump_time, FZero) /\ call.t = call.pump_time
    /\ call.front = FInt(call.toc)

\* C5: the ECD series of a rendered ECD panel holds no NaN or Infinity:
\* every depth sample lies in [1, total_depth], the divisor 0.052*z is not
\* zero, and a non-finite total pressure gives the ECD value 0.
C5_EcdFinite ==
    "ECD" \in rendered =>
        \A i \in SampleIdx :
            /\ IsFinite(ecd[i])
            /\ FLe(F1, depth_arr[i]) /\ FLe(depth_arr[i], FInt(depth))
            /\ ~IsZero(FMul(F0_052, depth_arr[i]))
            /\ ~IsFinite(total_psi[i]) => ecd[i] = FZero

C5_Witness ==
    /\ "ECD" \in rendered
    /\ \E i \in SampleIdx : ~IsFinite(total_psi[i]) /\ ecd[i] = FZero

\* C6 (as stated): whenever the fracture gradient is at most the pore
\* pressure, no 'Safe window' band is drawn between them.
C6_AsStated ==
    ("ECD" \in rendered /\ fracture_grad <= pore_press) => safe_window = <<>>

\* C7: with a pump rate <= 0 the pump time is 0 and nothing is raised; the
\* quotient volume/rate is the pump time exactly when rate > 0.
C7_ZeroRate ==
    (call.fn = "volume_and_time" /\ call.done) =>
        /\ IsValue(call.pump_time)
        /\ FLe(call.rate, FZero) => call.pump_time = FZero
        /\ FGt(call.rate, FZero) => call.pump_time = FDiv(call.vol_bbl, call.rate)

C7_Witness ==
    /\ call.fn = "volume_and_time" /\ call.done
    /\ IsZero(call.rate) /\ ~IsZero(call.vol_bbl) /\ call.pump_time = FZero

\* C8 (as stated): the density correction returns the base density at the
\* reference temperature, and does not increase with T above it.
C8_AsStated ==
    (call.fn = "density_temp_correction" /\ call.done) =>
        /\ FInt(call.T) = T_ref => call.ret = call.ppg
        /\ \A T2 \in TempArgs :
              (T2 > call.T /\ FGe(FInt(call.T), T_ref)) =>
                  FLe(density_temp_correction(call.ppg, FInt(T2), T_ref), call.ret)

\* C9 (as stated): for every selection of panels the Pressure panel reads
\* the depth array and the pressure series only when the run has bound them.
C9_AsStated ==
    "Pressure" \in show =>
        /\ error # "NameError"
        /\ \A x \in {depth_arr, hydro_psi, friction_psi, total_psi} : x # UndefSeries

\* C10 (as stated): when the Placement panel is shown, the default of the
\* simulation-time slider lies in the slider's range:
\* 0 <= min(pump_time, 0.5*pump_time) <= max(1.0, 1.2*pump_time).
C10_AsStated ==
    ("Placement" \in show /\ error # "NameError") =>
        SliderAccepts(sim_slider(pump_time))
====
